---- MODULE Spec2Model ----
(***************************************************************************)
(* State-machine model of src/src/grub_file.c, the binding between the     *)
(* GRUB file system engine and a standalone EFI file system driver.        *)
(*                                                                         *)
(* The engine (the grub_fs operation table), the pool allocator and the    *)
(* error translator are external to the file: each is modelled by the set  *)
(* of results its interface allows.  Machine integers are scaled down to   *)
(* WordBits bits; grub_off_t, grub_size_t and UINTN are unsigned words,    *)
(* INTN and grub_ssize_t are two's complement words of the same width      *)
(* (the x86_64 build).                                                     *)
(***************************************************************************)
EXTENDS Integers, FiniteSets, TLC

(* ------------------------------ bounds -------------------------------- *)

\* width of the scaled-down machine word
WordBits == 3
\* number of blocks the pool can hand out before it is exhausted
MaxBlocks == 4
\* engine error codes are 1..MaxErr (GRUB_ERR_NONE is 0)
MaxErr == 2
\* the engine reports at most this many entries in a directory
MaxEntries == 2
\* the engine's uuid strings have at most this many characters
MaxUuidLen == 40
\* the engine reads sectors 0..MaxSector of the disk
MaxSector == 3

(* ------------------------- program constants -------------------------- *)

NULL == 0
GRUB_ERR_NONE == 0
FS_LOGLEVEL_INFO == 3
\* the fixed sector size GRUB assumes, in bytes
GRUB_DISK_SECTOR_SIZE == 512
\* ARRAYSIZE(Uuid) of the static CHAR16 Uuid[36]
UuidUnits == 36

EFI_SUCCESS == "EFI_SUCCESS"
EFI_OUT_OF_RESOURCES == "EFI_OUT_OF_RESOURCES"
EFI_DEVICE_ERROR == "EFI_DEVICE_ERROR"
EFI_BUFFER_TOO_SMALL == "EFI_BUFFER_TOO_SMALL"

\* the values of grub_err_t that grub_disk_read returns
GRUB_ERR_READ_ERROR == "GRUB_ERR_READ_ERROR"
GRUB_ERR_OK == "GRUB_ERR_NONE"
EFI_INVALID_PARAMETER == "EFI_INVALID_PARAMETER"

(* --------------------------- machine words ---------------------------- *)

Word == 2 ^ WordBits
Words == 0 .. (Word - 1)
SSizeMax == (Word \div 2) - 1

\* conversion to an unsigned word (UINTN, grub_off_t, grub_size_t)
ToUnsigned(x) == x % Word

\* conversion to a signed word (INTN, grub_ssize_t)
ToSigned(x) == IF (x % Word) > SSizeMax THEN (x % Word) - Word ELSE x % Word

Min(a, b) == IF a < b THEN a ELSE b
Max(a, b) == IF a > b THEN a ELSE b

(* ----------------------------- the state ------------------------------ *)

VARIABLES
    grub_fs_list,   \* the registered driver: NULL or one of Drivers
    grub_errno,     \* the engine's last-error indicator
    LogLevel,       \* the driver's log level
    heap,           \* the allocated blocks of the pool, and what each holds
    This,           \* the EFI_FS instance: [GrubDevice, disk]
    files,          \* EFI_GRUB_FILE wrappers the host holds, by address
    FileOut,        \* the host's *File cell passed to GrubCreateFile
    crashed,        \* a NULL pointer was dereferenced: control never returns
    doubleFree,     \* a block was freed while not allocated
    ret             \* what the last call did and returned

vars == <<grub_fs_list, grub_errno, LogLevel, heap, This, files, FileOut,
          crashed, doubleFree, ret>>

Blocks == 1 .. MaxBlocks
Errs == 1 .. MaxErr
\* the drivers a module's init may register
Drivers == {1, 2}
LogLevels == {FS_LOGLEVEL_INFO - 1, FS_LOGLEVEL_INFO}

\* What grub_disk_read is given: the EFI_FS behind disk->data (whether the
\* pointer and its DiskIo and BlockIo interfaces are set), the sector, the
\* offset in it, the length, and the status the host's ReadDisk will give.
NoReq == [fs |-> FALSE, DiskIo |-> FALSE, BlockIo |-> FALSE,
          sector |-> 0, offset |-> 0, size |-> 0, host |-> "none"]

\* A string, by its encoding and its length in code units without the
\* terminator; NullText is the NULL pointer.
NullText == [enc |-> "null", len |-> 0]

NoRet == [op |-> "none", File |-> NULL, status |-> "none", Len |-> 0,
          reqLen |-> 0, engOp |-> "none", engLen |-> 0, callErrno |-> 0, rc |-> 0,
          allocs |-> 0, hooks |-> 0, text |-> NullText, uuid |-> NullText,
          req |-> NoReq, io |-> <<>>, walk |-> <<>>, drv |-> NULL]

(* ------------------------ external collaborators ---------------------- *)

\* AllocateZeroPool / grub_zalloc: NULL, or the lowest free block
AllocOutcomes(h) ==
    {NULL} \cup (IF Blocks \ h = {} THEN {}
                 ELSE {CHOOSE b \in Blocks \ h : \A c \in Blocks \ h : b <= c})

\* GrubErrToEFIStatus: "no error" is success, every other code a failure
GrubErrToEFIStatus(err) ==
    IF err = GRUB_ERR_NONE THEN EFI_SUCCESS ELSE EFI_DEVICE_ERROR

\* An engine operation returning grub_err_t: the code it returns, and the
\* last-error indicator it leaves (an error is raised through grub_error,
\* which sets the indicator to the code it returns).
EngineErrOutcomes(errno) ==
    {[rc |-> GRUB_ERR_NONE, errno |-> errno]}
        \cup {[rc |-> e, errno |-> e] : e \in Errs}

\* The engine's read: a count 0..len (a grub_ssize_t), or -1 with the
\* last-error indicator set.
EngineReadOutcomes(len, errno) ==
    {[len |-> n, errno |-> errno] : n \in 0 .. Min(len, SSizeMax)}
        \cup {[len |-> 0 - 1, errno |-> e] : e \in Errs}

(* ------------------------------- Init --------------------------------- *)

Init ==
    /\ grub_fs_list = NULL
    /\ grub_errno = GRUB_ERR_NONE
    /\ LogLevel \in LogLevels
    /\ heap = <<>>
    /\ This = [GrubDevice |-> NULL, disk |-> NULL]
    /\ files = <<>>
    /\ FileOut = NULL
    /\ crashed = FALSE
    /\ doubleFree = FALSE
    /\ ret = NoRet

(* ------------------------------ the pool ------------------------------ *)

Live(h, b) == b \in DOMAIN h

\* the pool after handing out block b to hold a `kind`
Take(h, b, kind) == [c \in DOMAIN h \cup {b} |-> IF c = b THEN kind ELSE h[c]]

\* FreePool / grub_free: the pool after releasing the blocks bs
Release(h, bs) == [c \in DOMAIN h \ bs |-> h[c]]

\* the instance's device block is allocated and still holds the device
DeviceLive == Live(heap, This.GrubDevice) /\ heap[This.GrubDevice] = "device"

(* --------------------------- registry --------------------------------- *)

\* grub_fs_register: the module's init puts its driver in grub_fs_list
Register ==
    /\ ~crashed
    /\ \E d \in Drivers :
        /\ grub_fs_list' = d
        /\ ret' = [NoRet EXCEPT !.op = "Register"]
    /\ UNCHANGED <<grub_errno, LogLevel, heap, This, files, FileOut,
                   crashed, doubleFree>>

(* --------------------------- the block shim --------------------------- *)

\* the EFI_FS contexts disk->data may point to: NULL, or an instance with
\* or without each of its two interfaces
Contexts ==
    {[fs |-> FALSE, DiskIo |-> FALSE, BlockIo |-> FALSE]}
        \cup [fs : {TRUE}, DiskIo : BOOLEAN, BlockIo : BOOLEAN]

\* the requests the engine makes, each with the host's answer; every byte
\* offset is far below the 64 bits of the host's offset
DiskRequests ==
    {[fs |-> c.fs, DiskIo |-> c.DiskIo, BlockIo |-> c.BlockIo,
      sector |-> sector, offset |-> offset, size |-> size, host |-> host] :
        c \in Contexts,
        sector \in 0 .. MaxSector,
        offset \in {0, 1, GRUB_DISK_SECTOR_SIZE - 1, GRUB_DISK_SECTOR_SIZE},
        size \in {0, 1, GRUB_DISK_SECTOR_SIZE},
        host \in {EFI_SUCCESS, EFI_DEVICE_ERROR}}

\* grub_disk_read that reads from the start of the sector
DiskRead_DropOffset(q) ==
    IF ~q.fs \/ ~q.DiskIo \/ ~q.BlockIo
    THEN [status |-> GRUB_ERR_READ_ERROR, io |-> <<>>]
    ELSE [status |-> IF q.host # EFI_SUCCESS THEN GRUB_ERR_READ_ERROR
                     ELSE GRUB_ERR_OK,
          io |-> <<[offset |-> q.sector * GRUB_DISK_SECTOR_SIZE,
                    len |-> q.size]>>]

\* grub_disk_read: the code it returns and the host reads it issues
DiskRead(q) ==
    IF ~q.fs \/ ~q.DiskIo \/ ~q.BlockIo
    THEN [status |-> GRUB_ERR_READ_ERROR, io |-> <<>>]
    ELSE [status |-> IF q.host # EFI_SUCCESS THEN GRUB_ERR_READ_ERROR
                     ELSE GRUB_ERR_OK,
          io |-> <<[offset |-> q.sector * GRUB_DISK_SECTOR_SIZE + q.offset,
                    len |-> q.size]>>]

\* the engine calls grub_disk_read while it serves an operation
grub_disk_read ==
    /\ ~crashed
    /\ \E q \in DiskRequests :
        ret' = [NoRet EXCEPT !.op = "grub_disk_read", !.req = q,
                             !.status = DiskRead(q).status,
                             !.io = DiskRead(q).io]
    /\ UNCHANGED <<grub_fs_list, grub_errno, LogLevel, heap, This, files,
                   FileOut, crashed, doubleFree>>

(* ------------------------- device lifecycle --------------------------- *)

\* grub_device_open: the pool and the device it leaves, for each outcome
\* of its two allocations.
grub_device_open(h) ==
    UNION {
        IF device = NULL
        THEN {[heap |-> h, device |-> NULL, disk |-> NULL, allocs |-> 0]}
        ELSE {IF disk = NULL
              THEN [heap |-> Release(Take(h, device, "device"), {device}),
                    device |-> NULL, disk |-> NULL, allocs |-> 1]
              ELSE [heap |-> Take(Take(h, device, "device"), disk, "disk"),
                    device |-> device, disk |-> disk, allocs |-> 2]
              : disk \in AllocOutcomes(DOMAIN h \cup {device})}
        : device \in AllocOutcomes(DOMAIN h)}

\* The host opens the device of an instance once, when it binds the
\* instance, and closes it once, when it unbinds it.
GrubDeviceInit ==
    /\ ~crashed
    /\ ~DeviceLive
    /\ \E o \in grub_device_open(heap) :
        /\ heap' = o.heap
        /\ This' = [GrubDevice |-> o.device, disk |-> o.disk]
        /\ ret' = [NoRet EXCEPT !.op = "GrubDeviceInit",
                                !.allocs = o.allocs,
                                !.status = IF o.device = NULL
                                           THEN EFI_OUT_OF_RESOURCES
                                           ELSE EFI_SUCCESS]
    /\ UNCHANGED <<grub_fs_list, grub_errno, LogLevel, files, FileOut,
                   crashed, doubleFree>>

\* grub_device_close that frees the device and forgets device->disk
grub_device_close_LeakDisk(h, device, disk) == Release(h, {device})

\* grub_device_close: frees device->disk, then device
grub_device_close(h, device, disk) == Release(h, {disk, device})

GrubDeviceExit ==
    /\ ~crashed
    /\ DeviceLive
    /\ heap' = grub_device_close(heap, This.GrubDevice, This.disk)
    /\ doubleFree' = (doubleFree
                        \/ ~Live(heap, This.disk)
                        \/ ~Live(heap, This.GrubDevice))
    /\ ret' = [NoRet EXCEPT !.op = "GrubDeviceExit", !.status = EFI_SUCCESS]
    /\ UNCHANGED <<grub_fs_list, grub_errno, LogLevel, This, files, FileOut,
                   crashed>>

(* -------------------------- file lifecycle ---------------------------- *)

\* GrubCreateFile's allocations without the FreePool(NewFile) of line 140
CreateFileAlloc_NoRollback(h) ==
    UNION {
        IF NewFile = NULL
        THEN {[heap |-> h, NewFile |-> NULL, GrubFile |-> NULL, allocs |-> 0]}
        ELSE {IF GrubFile = NULL
              THEN [heap |-> Take(h, NewFile, "file"),
                    NewFile |-> NULL, GrubFile |-> NULL, allocs |-> 1]
              ELSE [heap |-> Take(Take(h, NewFile, "file"), GrubFile, "session"),
                    NewFile |-> NewFile, GrubFile |-> GrubFile, allocs |-> 2]
              : GrubFile \in AllocOutcomes(DOMAIN h \cup {NewFile})}
        : NewFile \in AllocOutcomes(DOMAIN h)}

\* GrubCreateFile's two allocations: the pool it leaves and the wrapper
\* and session blocks, for each outcome.
CreateFileAlloc(h) ==
    UNION {
        IF NewFile = NULL
        THEN {[heap |-> h, NewFile |-> NULL, GrubFile |-> NULL, allocs |-> 0]}
        ELSE {IF GrubFile = NULL
              THEN [heap |-> Release(Take(h, NewFile, "file"), {NewFile}),
                    NewFile |-> NULL, GrubFile |-> NULL, allocs |-> 1]
              ELSE [heap |-> Take(Take(h, NewFile, "file"), GrubFile, "session"),
                    NewFile |-> NewFile, GrubFile |-> GrubFile, allocs |-> 2]
              : GrubFile \in AllocOutcomes(DOMAIN h \cup {NewFile})}
        : NewFile \in AllocOutcomes(DOMAIN h)}

GrubCreateFile ==
    /\ ~crashed
    /\ \E o \in CreateFileAlloc(heap) :
        /\ heap' = o.heap
        /\ IF o.NewFile = NULL
           THEN /\ UNCHANGED <<files, FileOut>>
                /\ ret' = [NoRet EXCEPT !.op = "GrubCreateFile",
                                        !.allocs = o.allocs,
                                        !.status = EFI_OUT_OF_RESOURCES]
           ELSE /\ files' = [F \in DOMAIN files \cup {o.NewFile} |->
                               IF F = o.NewFile
                               THEN [GrubFile |-> o.GrubFile,
                                     device |-> This.GrubDevice,
                                     fs |-> grub_fs_list,
                                     size |-> 0, offset |-> 0]
                               ELSE files[F]]
                /\ FileOut' = o.NewFile
                /\ ret' = [NoRet EXCEPT !.op = "GrubCreateFile",
                                        !.File = o.NewFile,
                                        !.allocs = o.allocs,
                                        !.status = EFI_SUCCESS]
    /\ UNCHANGED <<grub_fs_list, grub_errno, LogLevel, This, crashed,
                   doubleFree>>

\* GrubDestroyFile's two frees
DestroyFileFree(h, File, GrubFile) == Release(h, {GrubFile, File})

GrubDestroyFile ==
    /\ ~crashed
    /\ \E File \in DOMAIN files :
        /\ heap' = DestroyFileFree(heap, File, files[File].GrubFile)
        /\ doubleFree' = (doubleFree
                            \/ ~Live(heap, File)
                            \/ ~Live(heap, files[File].GrubFile))
        /\ files' = [F \in DOMAIN files \ {File} |-> files[F]]
        /\ ret' = [NoRet EXCEPT !.op = "GrubDestroyFile", !.File = File]
    /\ UNCHANGED <<grub_fs_list, grub_errno, LogLevel, This, FileOut,
                   crashed>>

(* ----------------------------- accessors ------------------------------ *)

GrubGetFileSize(File) == files[File].size

GrubGetFileOffset(File) == files[File].offset

\* GrubSetFileOffset that keeps the offset within the file
GrubSetFileOffset_Clamped(Offsets) ==
    /\ ~crashed
    /\ \E File \in DOMAIN files, Offset \in Offsets :
        /\ files' = [files EXCEPT
                        ![File].offset = Min(ToUnsigned(Offset), files[File].size)]
        /\ ret' = [NoRet EXCEPT !.op = "GrubSetFileOffset", !.File = File,
                                !.Len = Offset]
    /\ UNCHANGED <<grub_fs_list, grub_errno, LogLevel, heap, This, FileOut,
                   crashed, doubleFree>>

\* GrubSetFileOffset, for the offsets the host may pass
GrubSetFileOffset(Offsets) ==
    /\ ~crashed
    /\ \E File \in DOMAIN files, Offset \in Offsets :
        /\ files' = [files EXCEPT ![File].offset = ToUnsigned(Offset)]
        /\ ret' = [NoRet EXCEPT !.op = "GrubSetFileOffset", !.File = File,
                                !.Len = Offset]
    /\ UNCHANGED <<grub_fs_list, grub_errno, LogLevel, heap, This, FileOut,
                   crashed, doubleFree>>

(* --------------------------- the engine ------------------------------- *)

\* A directory entry as the engine hands it to a hook: its name and, of
\* its metadata, whether it is a directory
Entries == [name : {"a", "b"}, dir : BOOLEAN]

\* What a walk of a directory finds: the entries the engine gets to, in
\* order, were no hook to stop it
Walks == UNION {[1 .. n -> Entries] : n \in 0 .. MaxEntries}

\* the walks of an empty directory and of a directory of one plain file
ShortWalks ==
    {w \in Walks : /\ Cardinality(DOMAIN w) <= 1
                   /\ \A i \in DOMAIN w : w[i] = [name |-> "a", dir |-> FALSE]}

\* A directory hook, as the value it returns for each entry
Hooks == [Entries -> {0, 1}]

\* probe_dummy_iter that stops at directories only
probe_dummy_iter_DirsOnly == [e \in Entries |-> IF e.dir THEN 1 ELSE 0]

\* probe_dummy_iter returns 1 whatever it is given
probe_dummy_iter == [e \in Entries |-> 1]

\* The number of calls the engine's dir makes to `hook` on the walk w:
\* one per entry, until the hook returns non-zero.
HookCalls(w, hook) ==
    IF \E i \in DOMAIN w : hook[w[i]] # 0
    THEN CHOOSE i \in DOMAIN w :
            hook[w[i]] # 0 /\ \A j \in 1 .. (i - 1) : hook[w[j]] = 0
    ELSE Cardinality(DOMAIN w)

\* The engine's dir, walking one of `walks` with one of `hooks`: the code
\* it returns, the last-error indicator it leaves, the walk and the calls
\* it made to the hook.
EngineDirOutcomes(errno, hooks, walks) ==
    {[rc |-> o.rc, errno |-> o.errno, walk |-> w,
      hooks |-> HookCalls(w, hook)] :
        o \in EngineErrOutcomes(errno), w \in walks, hook \in hooks}

\* The outcomes of the dir GrubDir calls, after it has cleared the
\* indicator: the host's hook may be any, and so may the directory.
HostDirOutcomes ==
    {[rc |-> o.rc, errno |-> o.errno, hooks |-> o.hooks] :
        o \in EngineDirOutcomes(0, Hooks, Walks)}

(* ------------------------ the operation bridge ------------------------ *)

\* the driver of a bridged operation, were it the one the session stores
DriverOf_Stored(File) == files[File].fs

\* grub_fs_t p = grub_fs_list: the driver whose operation table a bridged
\* operation on File calls
DriverOf(File) == grub_fs_list

\* p = grub_fs_list is NULL and is dereferenced for its operation table:
\* control does not come back to the caller.
NullDriver(op, File, errno) ==
    /\ grub_fs_list = NULL
    /\ crashed' = TRUE
    /\ grub_errno' = errno
    /\ ret' = [NoRet EXCEPT !.op = op, !.File = File, !.callErrno = errno]
    /\ UNCHANGED <<grub_fs_list, LogLevel, heap, This, files, FileOut,
                   doubleFree>>

GrubDir ==
    /\ ~crashed
    /\ \E File \in DOMAIN files :
        \/ NullDriver("GrubDir", File, 0)
        \/ /\ grub_fs_list # NULL
           /\ \E o \in HostDirOutcomes :
                /\ grub_errno' = o.errno
                /\ ret' = [NoRet EXCEPT !.op = "GrubDir", !.File = File,
                                        !.drv = DriverOf(File),
                                        !.engOp = "dir", !.callErrno = 0,
                                        !.rc = o.rc, !.hooks = o.hooks,
                                        !.status = GrubErrToEFIStatus(o.rc)]
           /\ UNCHANGED <<grub_fs_list, LogLevel, heap, This, files, FileOut,
                          crashed, doubleFree>>

\* GrubOpen, for the file sizes the engine may find
GrubOpen(Sizes) ==
    /\ ~crashed
    /\ \E File \in DOMAIN files :
        \/ NullDriver("GrubOpen", File, 0)
        \/ /\ grub_fs_list # NULL
           /\ \E o \in EngineErrOutcomes(0) :
                /\ grub_errno' = o.errno
                /\ IF o.rc = GRUB_ERR_NONE
                   THEN \E size \in Sizes :
                            files' = [files EXCEPT ![File].size = size]
                   ELSE UNCHANGED files
                /\ ret' = [NoRet EXCEPT !.op = "GrubOpen", !.File = File,
                                        !.drv = DriverOf(File),
                                        !.engOp = "open", !.callErrno = 0,
                                        !.rc = o.rc,
                                        !.status = GrubErrToEFIStatus(o.rc)]
           /\ UNCHANGED <<grub_fs_list, LogLevel, heap, This, FileOut,
                          crashed, doubleFree>>

GrubClose ==
    /\ ~crashed
    /\ \E File \in DOMAIN files :
        \/ NullDriver("GrubClose", File, 0)
        \/ /\ grub_fs_list # NULL
           /\ \E o \in EngineErrOutcomes(0) :
                /\ grub_errno' = o.errno
                /\ ret' = [NoRet EXCEPT !.op = "GrubClose", !.File = File,
                                        !.drv = DriverOf(File),
                                        !.engOp = "close", !.callErrno = 0,
                                        !.rc = o.rc, !.status = "VOID"]
           /\ UNCHANGED <<grub_fs_list, LogLevel, heap, This, files, FileOut,
                          crashed, doubleFree>>

GrubLabel ==
    /\ ~crashed
    /\ \E File \in DOMAIN files :
        \/ NullDriver("GrubLabel", File, 0)
        \/ /\ grub_fs_list # NULL
           /\ \E o \in EngineErrOutcomes(0) :
                /\ grub_errno' = o.errno
                /\ ret' = [NoRet EXCEPT !.op = "GrubLabel", !.File = File,
                                        !.drv = DriverOf(File),
                                        !.engOp = "label", !.callErrno = 0,
                                        !.rc = o.rc,
                                        !.status = GrubErrToEFIStatus(o.rc)]
           /\ UNCHANGED <<grub_fs_list, LogLevel, heap, This, files, FileOut,
                          crashed, doubleFree>>

(* ---------------------------- the read path --------------------------- *)

\* INTN Remaining = f->size - f->offset
Remaining(size, offset) == ToSigned(size - offset)

\* GrubRead without the clamp of lines 232-233
ClampLen_NoClamp(Len, size, offset) == Len

\* if (*Len > Remaining) *Len = Remaining;  the comparison converts the
\* signed Remaining to the unsigned type of *Len, as does the assignment
ClampLen(Len, size, offset) ==
    IF Len > ToUnsigned(Remaining(size, offset))
    THEN ToUnsigned(Remaining(size, offset))
    ELSE Len

\* GrubRead without the len < 0 test of lines 237-240
ReadReturn_NoErrorCheck(offset, o) ==
    [Len |-> ToUnsigned(o.len), status |-> EFI_SUCCESS,
     offset |-> ToUnsigned(offset + o.len)]

\* What GrubRead leaves once the engine's read has returned o:
\* the length it reports, its status and the file's offset.
ReadReturn(offset, o) ==
    IF o.len < 0
    THEN [Len |-> 0, status |-> GrubErrToEFIStatus(o.errno), offset |-> offset]
    ELSE [Len |-> ToUnsigned(o.len), status |-> EFI_SUCCESS,
          offset |-> ToUnsigned(offset + o.len)]

\* GrubRead, for the lengths the host may request
GrubRead(Lens) ==
    /\ ~crashed
    /\ \E File \in DOMAIN files, Len \in Lens :
        LET f == files[File]
            len == ClampLen(Len, f.size, f.offset)
        IN  \/ /\ NullDriver("GrubRead", File, grub_errno)
            \/ /\ grub_fs_list # NULL
               /\ \E o \in EngineReadOutcomes(len, grub_errno) :
                    LET r == ReadReturn(f.offset, o)
                    IN  /\ grub_errno' = o.errno
                        /\ files' = [files EXCEPT ![File].offset = r.offset]
                        /\ ret' = [NoRet EXCEPT !.op = "GrubRead",
                                                !.File = File,
                                                !.drv = DriverOf(File),
                                                !.engOp = "read",
                                                !.reqLen = Len,
                                                !.engLen = len,
                                                !.callErrno = grub_errno,
                                                !.rc = o.len,
                                                !.Len = r.Len,
                                                !.status = r.status]
               /\ UNCHANGED <<grub_fs_list, LogLevel, heap, This, FileOut,
                              crashed, doubleFree>>

(* -------------------------------- uuid -------------------------------- *)

\* The narrow strings the engine may hand back, of the lengths lens: UTF-8
\* text, or bytes that are not valid UTF-8
NarrowTexts(lens) == [enc : {"utf8", "bad"}, len : lens]

\* The engine's uuid: the code it returns, the last-error indicator it
\* leaves and the string it stores in *uuid, which may be NULL.
EngineUuidOutcomes(errno, lens) ==
    {[rc |-> e, errno |-> e, uuid |-> NullText] : e \in Errs}
        \cup {[rc |-> GRUB_ERR_NONE, errno |-> errno, uuid |-> t] :
                t \in {NullText} \cup NarrowTexts(lens)}

\* Utf8ToUtf16NoAlloc(src, Dst, Len): re-encodes src into the Len units of
\* Dst, terminator included; fails on bytes that are not UTF-8 and on a
\* string that does not fit.
Utf8ToUtf16NoAlloc(src, units) ==
    IF src.enc # "utf8"
    THEN [status |-> EFI_INVALID_PARAMETER, dst |-> NullText]
    ELSE IF src.len + 1 > units
    THEN [status |-> EFI_BUFFER_TOO_SMALL, dst |-> NullText]
    ELSE [status |-> EFI_SUCCESS, dst |-> [enc |-> "utf16", len |-> src.len]]

EFI_ERROR(Status) == Status # EFI_SUCCESS

\* GrubGetUuid that returns the buffer whatever the conversion's status
UuidReturn_IgnoreStatus(o) ==
    IF o.rc # GRUB_ERR_NONE \/ o.uuid = NullText
    THEN NullText
    ELSE [enc |-> "utf16", len |-> Min(o.uuid.len, UuidUnits)]

\* What GrubGetUuid returns once the engine's uuid has returned o
UuidReturn(o) ==
    IF o.rc # GRUB_ERR_NONE \/ o.uuid = NullText
    THEN NullText
    ELSE IF EFI_ERROR(Utf8ToUtf16NoAlloc(o.uuid, UuidUnits).status)
    THEN NullText
    ELSE Utf8ToUtf16NoAlloc(o.uuid, UuidUnits).dst

\* GrubGetUuid, for the lengths of the strings the engine may hand back
GrubGetUuid(lens) ==
    /\ ~crashed
    /\ \/ NullDriver("GrubGetUuid", NULL, grub_errno)
       \/ /\ grub_fs_list # NULL
          /\ \E o \in EngineUuidOutcomes(grub_errno, lens) :
                /\ grub_errno' = o.errno
                /\ ret' = [NoRet EXCEPT !.op = "GrubGetUuid",
                                        !.engOp = "uuid",
                                        !.callErrno = grub_errno,
                                        !.rc = o.rc,
                                        !.text = o.uuid,
                                        !.uuid = UuidReturn(o)]
          /\ UNCHANGED <<grub_fs_list, LogLevel, heap, This, files, FileOut,
                         crashed, doubleFree>>

(* ------------------------------- probe -------------------------------- *)

\* GrubFSProbe that tests the walk's result the wrong way round
ProbeReturn_Inverted(errno, level) ==
    IF errno = 0
    THEN [result |-> FALSE, errno |-> errno]
    ELSE [result |-> TRUE, errno |-> errno]

\* GrubFSProbe that logs whatever the log level is
ProbeReturn_AlwaysLogs(errno, level) ==
    IF errno # 0
    THEN [result |-> FALSE, errno |-> GRUB_ERR_NONE]
    ELSE [result |-> TRUE, errno |-> errno]

\* What GrubFSProbe returns and the last-error indicator it leaves, once
\* the walk has left the indicator at errno.
ProbeReturn(errno, level) ==
    IF errno # 0
    THEN [result |-> FALSE,
          errno |-> IF level >= FS_LOGLEVEL_INFO THEN GRUB_ERR_NONE ELSE errno]
    ELSE [result |-> TRUE, errno |-> errno]

\* GrubFSProbe, for the walks the engine may make of the root directory.
\* (p == NULL) || (device->disk == NULL): the first test short-circuits the
\* second; with a driver registered, device->disk is read through device.
GrubFSProbe(RootWalks) ==
    /\ ~crashed
    /\ IF grub_fs_list = NULL
       THEN /\ ret' = [NoRet EXCEPT !.op = "GrubFSProbe", !.status = "FALSE"]
            /\ UNCHANGED <<grub_errno, crashed>>
       ELSE IF This.GrubDevice = NULL
       THEN \* device->disk is read through a NULL device
            /\ crashed' = TRUE
            /\ ret' = [NoRet EXCEPT !.op = "GrubFSProbe"]
            /\ UNCHANGED grub_errno
       ELSE \E diskNull \in (IF DeviceLive THEN {FALSE} ELSE BOOLEAN) :
            IF diskNull
            THEN /\ ret' = [NoRet EXCEPT !.op = "GrubFSProbe",
                                         !.status = "FALSE"]
                 /\ UNCHANGED <<grub_errno, crashed>>
            ELSE \E o \in EngineDirOutcomes(0, {probe_dummy_iter}, RootWalks) :
                    LET r == ProbeReturn(o.errno, LogLevel)
                    IN  /\ grub_errno' = r.errno
                        /\ ret' = [NoRet EXCEPT !.op = "GrubFSProbe",
                                                !.engOp = "dir",
                                                !.callErrno = 0,
                                                !.rc = o.rc,
                                                !.hooks = o.hooks,
                                                !.walk = o.walk,
                                                !.status = IF r.result
                                                           THEN "TRUE"
                                                           ELSE "FALSE"]
                        /\ UNCHANGED crashed
    /\ UNCHANGED <<grub_fs_list, LogLevel, heap, This, files, FileOut,
                   doubleFree>>

(* --------------------------- specifications --------------------------- *)

Next ==
    \/ Register
    \/ GrubDeviceInit
    \/ GrubDeviceExit
    \/ GrubCreateFile
    \/ GrubDestroyFile
    \/ GrubSetFileOffset({0})
    \/ GrubDir
    \/ GrubOpen({0})
    \/ GrubClose
    \/ GrubRead({1})
    \/ GrubLabel
    \/ GrubFSProbe(ShortWalks)
    \/ GrubGetUuid({UuidUnits - 1})

Spec == Init /\ [][Next]_vars

\* The read path on one file, over every size, offset and length of the
\* word: the state once a driver is registered, the device is open and a
\* file has been created, and from there the operations on that file.
InitIO ==
    /\ grub_fs_list = 1
    /\ grub_errno = GRUB_ERR_NONE
    /\ LogLevel = FS_LOGLEVEL_INFO
    /\ heap = (1 :> "device" @@ 2 :> "disk" @@ 3 :> "file" @@ 4 :> "session")
    /\ This = [GrubDevice |-> 1, disk |-> 2]
    /\ files = (3 :> [GrubFile |-> 4, device |-> 1, fs |-> grub_fs_list,
                      size |-> 0, offset |-> 0])
    /\ FileOut = 3
    /\ crashed = FALSE
    /\ doubleFree = FALSE
    /\ ret = [NoRet EXCEPT !.op = "GrubCreateFile", !.File = 3, !.allocs = 2,
                           !.status = EFI_SUCCESS]

\* requested lengths: none, short, and around the sign bit of the word
ReadLens == {0, 1, 2, SSizeMax, SSizeMax + 1, Word - 1}

NextIO ==
    \/ GrubOpen(Words)
    \/ GrubSetFileOffset(Words)
    \/ GrubRead(ReadLens)
    \/ GrubClose

SpecIO == InitIO /\ [][NextIO]_vars

\* Two files side by side: the state once a driver has been registered, a
\* file created, another driver registered and a second file created; and
\* from there the operations that write a session's fields.
InitFrame ==
    /\ grub_fs_list = 2
    /\ grub_errno = GRUB_ERR_NONE
    /\ LogLevel = FS_LOGLEVEL_INFO
    /\ heap = (1 :> "file" @@ 2 :> "session" @@ 3 :> "file" @@ 4 :> "session")
    /\ This = [GrubDevice |-> NULL, disk |-> NULL]
    /\ files = (1 :> [GrubFile |-> 2, device |-> NULL, fs |-> 1,
                      size |-> 0, offset |-> 0]
                @@ 3 :> [GrubFile |-> 4, device |-> NULL, fs |-> 2,
                         size |-> 0, offset |-> 0])
    /\ FileOut = 3
    /\ crashed = FALSE
    /\ doubleFree = FALSE
    /\ ret = [NoRet EXCEPT !.op = "GrubCreateFile", !.File = 3, !.allocs = 2,
                           !.status = EFI_SUCCESS]

NextFrame ==
    \/ GrubSetFileOffset(Words)
    \/ GrubOpen({1, Word - 1})
    \/ GrubClose

SpecFrame == InitFrame /\ [][NextFrame]_vars

\* The uuid query on an open device, over every length of string the
\* engine may hand back, with the driver registered or replaced.
NextUuid ==
    \/ GrubGetUuid(0 .. MaxUuidLen)
    \/ Register

SpecUuid == InitIO /\ [][NextUuid]_vars

\* The block reads of the engine against an open device
NextDisk == grub_disk_read

SpecDisk == InitIO /\ [][NextDisk]_vars

\* Probes of root directories of every content, under either driver
NextProbe ==
    \/ GrubFSProbe(Walks)
    \/ Register

SpecProbe == InitIO /\ [][NextProbe]_vars

(* ------------------------------ properties ---------------------------- *)

\* the step is a GrubRead on File that reached the engine's read
ReadStep(File) ==
    /\ ret'.op = "GrubRead"
    /\ ret'.File = File
    /\ ret'.engOp = "read"

\* C1 (P1, clamp): a GrubRead on a file with offset <= size reports a
\* length of at most size - offset and leaves offset <= size.
C1_ReadClamp ==
    [][\A File \in DOMAIN files :
        (ReadStep(File) /\ files[File].offset <= files[File].size)
        => /\ ret'.Len <= files[File].size - files[File].offset
           /\ files'[File].offset <= files'[File].size]_vars

\* C1 witness: a read asking for more than what is left returned all that
\* was left, and the offset is now the size.
C1_Witness ==
    /\ ret.op = "GrubRead"
    /\ ret.status = EFI_SUCCESS
    /\ ret.reqLen > ret.engLen
    /\ ret.Len = ret.engLen
    /\ ret.Len > 0
    /\ files[ret.File].offset = files[ret.File].size
    /\ files[ret.File].offset - ret.Len >= 0

\* C2: the length GrubRead passes to the engine is
\* min(requested length, max(0, size - offset)), whatever offset was set.
C2_EngineLenClamped ==
    [][\A File \in DOMAIN files :
        ReadStep(File)
        => ret'.engLen = Min(ret'.reqLen,
                             Max(0, files[File].size - files[File].offset))]_vars

\* C3 (P2, monotonic offset): a GrubRead never decreases offset; a
\* successful one adds exactly the count the engine reported and returns
\* that count; a successful zero-byte read leaves offset unchanged.
C3_OffsetMonotonic ==
    [][\A File \in DOMAIN files :
        ReadStep(File)
        => /\ files'[File].offset >= files[File].offset
           /\ ret'.status = EFI_SUCCESS
                => /\ files'[File].offset = files[File].offset + ret'.rc
                   /\ ret'.Len = ret'.rc
           /\ (ret'.status = EFI_SUCCESS /\ ret'.rc = 0)
                => files'[File].offset = files[File].offset]_vars

\* C4: when the engine's read returns a negative result, GrubRead reports
\* a length of 0, returns the translation of the last-error indicator,
\* which is a failure status, and leaves the file's offset and size alone.
C4_ReadFailure ==
    [][\A File \in DOMAIN files :
        (ReadStep(File) /\ ret'.rc < 0)
        => /\ ret'.Len = 0
           /\ ret'.status = GrubErrToEFIStatus(grub_errno')
           /\ ret'.status # EFI_SUCCESS
           /\ files'[File].offset = files[File].offset
           /\ files'[File].size = files[File].size]_vars

\* C4 witness: a read of a positive length at a positive offset failed in
\* the engine.
C4_Witness ==
    /\ ret.op = "GrubRead"
    /\ ret.rc < 0
    /\ ret.engLen > 0
    /\ ret.Len = 0
    /\ ret.status = EFI_DEVICE_ERROR
    /\ files[ret.File].offset > 0

\* C5 (P3, error-clear protocol): once Open, Dir, Read or Label has
\* returned success, the last-error indicator reads "no error".
C5_SuccessLeavesNoError ==
    (ret.op \in {"GrubOpen", "GrubDir", "GrubRead", "GrubLabel"}
        /\ ret.status = EFI_SUCCESS)
    => grub_errno = GRUB_ERR_NONE

\* C6: every bridged entry point clears the last-error indicator before
\* it invokes the engine, and returns the translation of the call's
\* result (of the last-error indicator when the read failed).
C6_ClearInvokeTranslate ==
    (ret.op \in {"GrubOpen", "GrubClose", "GrubDir", "GrubRead", "GrubLabel"}
        /\ ret.engOp # "none")
    => /\ ret.callErrno = GRUB_ERR_NONE
       /\ ret.op \in {"GrubOpen", "GrubDir", "GrubLabel"}
            => ret.status = GrubErrToEFIStatus(ret.rc)
       /\ ret.op = "GrubRead"
            => ret.status = IF ret.rc < 0 THEN GrubErrToEFIStatus(grub_errno)
                            ELSE EFI_SUCCESS

\* C7 (P4, probe correctness): a probe that walked the root directory
\* returns TRUE exactly when the walk did not fail, however many times the
\* hook was called.
C7_ProbeCorrect ==
    (ret.op = "GrubFSProbe" /\ ret.engOp = "dir")
    => /\ ret.status \in {"TRUE", "FALSE"}
       /\ ret.status = "TRUE" <=> ret.rc = GRUB_ERR_NONE

\* C7 witness: the walk called the hook zero times, set no error, and the
\* probe returned TRUE.
C7_Witness ==
    /\ ret.op = "GrubFSProbe"
    /\ ret.engOp = "dir"
    /\ ret.hooks = 0
    /\ ret.rc = GRUB_ERR_NONE
    /\ ret.status = "TRUE"

\* C8 as stated: when the walk sets the last-error indicator, the probe
\* returns FALSE and the indicator reads "no error" once it has returned.
C8_ErrorAlwaysConsumed ==
    (ret.op = "GrubFSProbe" /\ ret.engOp = "dir" /\ ret.rc # GRUB_ERR_NONE)
    => /\ ret.status = "FALSE"
       /\ grub_errno = GRUB_ERR_NONE

\* C8 as amended: when the walk sets the last-error indicator, the probe
\* returns FALSE; the indicator reads "no error" afterwards when LogLevel
\* is at least FS_LOGLEVEL_INFO, and still holds the walk's error otherwise.
C8_ErrorConsumedWhenLogged ==
    (ret.op = "GrubFSProbe" /\ ret.engOp = "dir" /\ ret.rc # GRUB_ERR_NONE)
    => /\ ret.status = "FALSE"
       /\ LogLevel >= FS_LOGLEVEL_INFO => grub_errno = GRUB_ERR_NONE
       /\ LogLevel < FS_LOGLEVEL_INFO => grub_errno = ret.rc

\* C8 witness: the walk set an error, the probe logged it and returned
\* FALSE.
C8_Witness ==
    /\ ret.op = "GrubFSProbe"
    /\ ret.engOp = "dir"
    /\ ret.rc # GRUB_ERR_NONE
    /\ ret.status = "FALSE"
    /\ LogLevel >= FS_LOGLEVEL_INFO
    /\ grub_errno = GRUB_ERR_NONE

\* every allocated block belongs to the open device or to a file the host
\* holds, and every block of those is allocated
EveryBlockOwned ==
    /\ \A b \in DOMAIN heap :
        /\ heap[b] = "device" => b = This.GrubDevice
        /\ heap[b] = "disk" => (b = This.disk /\ DeviceLive)
        /\ heap[b] = "file" => b \in DOMAIN files
        /\ heap[b] = "session" => \E F \in DOMAIN files : files[F].GrubFile = b
    /\ DeviceLive => (Live(heap, This.disk) /\ heap[This.disk] = "disk")
    /\ \A F \in DOMAIN files :
        /\ Live(heap, F) /\ heap[F] = "file"
        /\ Live(heap, files[F].GrubFile) /\ heap[files[F].GrubFile] = "session"

\* C9 (P5, lifecycle symmetry): no block is freed twice, every allocated
\* block belongs to the open device or a held file, so that nothing is
\* allocated once the device is closed and every file destroyed; and
\* GrubClose frees nothing.
C9_LifecycleSymmetry ==
    /\ [](/\ ~doubleFree
          /\ EveryBlockOwned
          /\ (~DeviceLive /\ DOMAIN files = {}) => DOMAIN heap = {})
    /\ [][ret'.op = "GrubClose" => heap' = heap]_vars

\* C9 witness: the device has been opened and closed, the last file has
\* just been destroyed, and nothing is allocated.
C9_Witness ==
    /\ ret.op = "GrubDestroyFile"
    /\ This.GrubDevice # NULL
    /\ DOMAIN files = {}
    /\ DOMAIN heap = {}
    /\ ~doubleFree

\* C10: GrubDeviceInit and GrubCreateFile, when an allocation fails,
\* return EFI_OUT_OF_RESOURCES without calling the engine, leave the same
\* blocks allocated as before, and GrubCreateFile does not set *File.
C10_AllocationFailure ==
    [][(ret'.op \in {"GrubDeviceInit", "GrubCreateFile"} /\ ret'.allocs < 2)
        => /\ ret'.status = EFI_OUT_OF_RESOURCES
           /\ ret'.engOp = "none"
           /\ grub_errno' = grub_errno
           /\ heap' = heap
           /\ ret'.op = "GrubCreateFile"
                => (FileOut' = FileOut /\ files' = files)]_vars

\* C10 witness: GrubCreateFile's wrapper was allocated, its session was
\* not, and it returned EFI_OUT_OF_RESOURCES with blocks still free.
C10_Witness ==
    /\ ret.op = "GrubCreateFile"
    /\ ret.allocs = 1
    /\ ret.status = EFI_OUT_OF_RESOURCES
    /\ DOMAIN heap # Blocks

\* the entry points that go through the driver's operation table
TableOps ==
    {"GrubOpen", "GrubClose", "GrubDir", "GrubRead", "GrubLabel",
     "GrubFSProbe", "GrubGetUuid"}

\* C11: no entry point reads the driver's operation table while the
\* registry is empty.
C11_DriverCheckedBeforeUse ==
    ~(ret.op \in TableOps /\ grub_fs_list = NULL /\ crashed)

\* C12: a probe called with no driver registered, or with a NULL device,
\* returns FALSE without reading through the device and without calling
\* the engine's dir.
C12_ProbePreconditions ==
    (ret.op = "GrubFSProbe" /\ (grub_fs_list = NULL \/ This.GrubDevice = NULL))
    => /\ ~crashed
       /\ ret.status = "FALSE"
       /\ ret.engOp = "none"

\* C13: every file's offset is within its size between calls.
C13_OffsetWithinSize ==
    \A File \in DOMAIN files :
        0 <= files[File].offset /\ files[File].offset <= files[File].size

\* C14: GrubSetFileOffset(File, v) makes the offset v, whatever v is, and
\* changes nothing else: not the session's size, device, driver or block,
\* not the last-error indicator, the registry or the pool, and no other
\* file.
C14_SetOffsetFrame ==
    [][\A File \in DOMAIN files :
        (ret'.op = "GrubSetFileOffset" /\ ret'.File = File)
        => /\ DOMAIN files' = DOMAIN files
           /\ files'[File].offset = ret'.Len
           /\ files'[File].size = files[File].size
           /\ files'[File].device = files[File].device
           /\ files'[File].fs = files[File].fs
           /\ files'[File].GrubFile = files[File].GrubFile
           /\ \A Other \in DOMAIN files \ {File} : files'[Other] = files[Other]
           /\ grub_errno' = grub_errno
           /\ grub_fs_list' = grub_fs_list
           /\ heap' = heap
           /\ This' = This]_vars

\* C14 witness: an offset beyond the file's size has just been set and is
\* what GrubGetFileOffset returns, next to a second file with another
\* offset, with the last-error indicator set.
C14_Witness ==
    /\ ret.op = "GrubSetFileOffset"
    /\ ret.Len > GrubGetFileSize(ret.File)
    /\ GrubGetFileOffset(ret.File) = ret.Len
    /\ grub_errno # GRUB_ERR_NONE
    /\ \E Other \in DOMAIN files \ {ret.File} :
        /\ files[Other].offset # 0
        /\ files[Other].offset # ret.Len

\* the last call was a GrubGetUuid that reached the engine's uuid
UuidCall == ret.op = "GrubGetUuid" /\ ret.engOp = "uuid"

\* C15 as stated: GrubGetUuid returns NULL when the engine's uuid fails or
\* yields NULL, and when the string with its terminator does not fit the
\* UuidUnits units of the buffer; otherwise it returns the re-encoded
\* string.
C15_UuidFitsOrEmpty ==
    UuidCall
    => IF ret.rc # GRUB_ERR_NONE \/ ret.text = NullText
            \/ ret.text.len + 1 > UuidUnits
       THEN ret.uuid = NullText
       ELSE ret.uuid = [enc |-> "utf16", len |-> ret.text.len]

\* C15 as amended: as above, and GrubGetUuid also returns NULL when the
\* engine's string is not valid UTF-8.
C15_UuidValidFitsOrEmpty ==
    UuidCall
    => IF ret.rc # GRUB_ERR_NONE \/ ret.text = NullText
            \/ ret.text.len + 1 > UuidUnits
            \/ ret.text.enc # "utf8"
       THEN ret.uuid = NullText
       ELSE ret.uuid = [enc |-> "utf16", len |-> ret.text.len]

\* C15 witness: the engine handed back a valid string of 40 characters
\* and GrubGetUuid returned NULL.
C15_Witness ==
    /\ UuidCall
    /\ ret.rc = GRUB_ERR_NONE
    /\ ret.text = [enc |-> "utf8", len |-> UuidUnits + 4]
    /\ ret.uuid = NullText

\* C16: grub_disk_read issues exactly one host read, at byte offset
\* sector * GRUB_DISK_SECTOR_SIZE + offset and of the requested length,
\* and returns "no error" exactly when that read succeeds, the read-error
\* code when it fails; when the EFI_FS or one of its interfaces is missing
\* it returns the read-error code and issues no host read.
C16_BlockRead ==
    ret.op = "grub_disk_read"
    => IF ret.req.fs /\ ret.req.DiskIo /\ ret.req.BlockIo
       THEN /\ ret.io = <<[offset |-> ret.req.sector * GRUB_DISK_SECTOR_SIZE
                                        + ret.req.offset,
                           len |-> ret.req.size]>>
            /\ ret.status = GRUB_ERR_OK <=> ret.req.host = EFI_SUCCESS
            /\ ret.req.host # EFI_SUCCESS => ret.status = GRUB_ERR_READ_ERROR
       ELSE /\ ret.io = <<>>
            /\ ret.status = GRUB_ERR_READ_ERROR

\* C16 witness: a read of a whole sector at a non-zero offset of a
\* non-zero sector went to the host and succeeded.
C16_Witness ==
    /\ ret.op = "grub_disk_read"
    /\ ret.req.sector > 0
    /\ ret.req.offset = 1
    /\ ret.req.size = GRUB_DISK_SECTOR_SIZE
    /\ ret.status = GRUB_ERR_OK
    /\ ret.io = <<[offset |-> ret.req.sector * GRUB_DISK_SECTOR_SIZE + 1,
                   len |-> GRUB_DISK_SECTOR_SIZE]>>

\* C17: in a probe the hook is called at most once, however many entries
\* the walk of the root directory has (once when it has any, never when it
\* has none), and the result of the probe is given by the engine's outcome
\* alone, whatever the names and metadata of the entries.
C17_ProbeStopsAtFirstEntry ==
    (ret.op = "GrubFSProbe" /\ ret.engOp = "dir")
    => /\ ret.hooks <= 1
       /\ ret.hooks = Min(Cardinality(DOMAIN ret.walk), 1)
       /\ ret.status = "TRUE" <=> ret.rc = GRUB_ERR_NONE

\* C17 witness: a probe of a root directory of several entries, the first
\* of which is not a directory, called the hook once and returned TRUE.
C17_Witness ==
    /\ ret.op = "GrubFSProbe"
    /\ ret.engOp = "dir"
    /\ Cardinality(DOMAIN ret.walk) >= 2
    /\ ~ret.walk[1].dir
    /\ ret.walk[2] # ret.walk[1]
    /\ ret.hooks = 1
    /\ ret.status = "TRUE"

\* the operations that go through the driver's table on behalf of a file
FileOps == {"GrubOpen", "GrubClose", "GrubDir", "GrubRead", "GrubLabel"}

\* C18: GrubOpen, GrubClose, GrubDir, GrubRead and GrubLabel call the
\* table of the driver the registry holds at the call, not the one the
\* session has stored; the stored reference of a file is never changed
\* once GrubCreateFile has written it.
C18_DispatchThroughRegistry ==
    /\ []((ret.op \in FileOps /\ ret.engOp # "none")
            => ret.drv = grub_fs_list)
    /\ [][\A File \in DOMAIN files :
            File \in DOMAIN files' => files'[File].fs = files[File].fs]_vars

\* C18 witness: after a re-registration, an operation on a file created
\* under the former driver was served by the new one.
C18_Witness ==
    /\ ret.op \in FileOps
    /\ ret.engOp # "none"
    /\ ret.File \in DOMAIN files
    /\ files[ret.File].fs # NULL
    /\ files[ret.File].fs # ret.drv
    /\ ret.drv = grub_fs_list
====
